---- MODULE Spec2Model ----
(***************************************************************************)
(* A model of rpc/blockchain.go: the PublicBlockchainService query         *)
(* handlers (GetBlockByNumber, GetBlockByHash, GetBlocks), the derived-    *)
(* data caches of bcServiceHelper (leader, signers, staking transactions)  *)
(* and the signer resolver getSignerData.                                  *)
(*                                                                         *)
(* Six specifications share the variables:                                 *)
(*   Spec        the query handlers against a chain whose head advances,   *)
(*               GetBlocks run step by step, with the caller's context;    *)
(*   SpecCache   concurrent requests going through the helper's caches;    *)
(*   SpecSigner  getSignerData applied to bounded rosters and masks;       *)
(*   SpecQuery   GetBlockSigners, GetBlockSignerKeys, IsBlockSigner and    *)
(*               GetSignedBlocks against the chain and the signers cache;  *)
(*   SpecLru     lookups served one after another, the three caches side   *)
(*               by side;                                                  *)
(*   SpecGate    GetBlockByNumber and GetBlockByHash on a service that has *)
(*               a limiter.                                                *)
(***************************************************************************)
EXTENDS Integers, Sequences, FiniteSets, TLC

VARIABLES
    version,    \* PublicBlockchainService.version
    limiter,    \* PublicBlockchainService.limiter
    head,       \* number of the chain's current header / current block
    call,       \* the arguments of the query being (or last) served
    gb,         \* the frame of the GetBlocks call in progress
    ctxDone,    \* whether the caller's context of that call is cancelled
    ret,        \* what the last query returned
    obs,        \* what the query did on the way: chain fetches, factory calls
    cache,      \* bcServiceCache: the three LRU caches
    procs,      \* the concurrent requests inside a helper lookup
    up,         \* whether the upstream data of a derived computation is readable
    last,       \* what the last helper lookup returned
    slots,      \* the committee roster given to getSignerData
    mask,       \* the signature mask given to getSignerData
    sd          \* what getSignerData returned

vars == <<version, limiter, head, call, gb, ctxDone, ret, obs,
          cache, procs, up, last, slots, mask, sd>>

serviceVars == <<version, limiter, head, call, gb, ctxDone, ret, obs>>
cacheVars   == <<cache, procs, up, last>>
signerVars  == <<slots, mask, sd>>

-----------------------------------------------------------------------------
(* Bounds of the model *)

\* int64 and uint64 are modelled with IntBits bits (two's complement).
IntBits == 12
\* The chain grows up to this block number.
MaxHead == 3

(* Program constants *)

rpcGetBlocksLimit  == 1024
LatestBlockNumber  == -1
PendingBlockNumber == -2

Nil == "nil"
V1  == "V1"
V2  == "V2"
Eth == "Eth"
Versions == {V1, V2, Eth}

ErrRequestedBlockTooHigh == "requested block number greater than current block number"
ErrUnknownRPCVersion     == "unknown rpc version"
ErrPendingNotImplemented == "pending block number not implemented"
ErrInvalidBlockArgs      == "invalid type for block arguments"
ErrUnmarshalBlockArgs    == "cannot unmarshal into BlockArgs"
ErrGetBlocksSize         == "GetBlocks query must be smaller than size 1024"
ErrContextCanceled       == "context canceled"
ErrRateWait              == "rate: Wait(n=1) would exceed context deadline"
ErrNewBlock              == "block factory error"
ErrEngine                == "chain engine error"

-----------------------------------------------------------------------------
(* Fixed-width integers *)

IntMod == 2 ^ IntBits
MaxInt == 2 ^ (IntBits - 1) - 1
MinInt == -(2 ^ (IntBits - 1))

\* The result of an int64 operation whose mathematical value is x.
WrapInt(x) == ((x - MinInt) % IntMod) + MinInt

\* uint64(x) of an int64 x.
Uint(x) == x % IntMod

-----------------------------------------------------------------------------
(* Request options *)

NoArgs == [WithSigners |-> FALSE, FullTx |-> FALSE, InclStaking |-> FALSE]

\* The shapes an `opts interface{}` comes in: a *rpc_common.BlockArgs, a bool,
\* a JSON object with the fields of BlockArgs, anything else.
OptsInputs ==
    { [shape |-> "BlockArgs", fullTx |-> TRUE,  withSigners |-> TRUE,  inclStaking |-> FALSE],
      [shape |-> "bool",      fullTx |-> TRUE,  withSigners |-> FALSE, inclStaking |-> FALSE],
      [shape |-> "bool",      fullTx |-> FALSE, withSigners |-> FALSE, inclStaking |-> FALSE],
      [shape |-> "object",    fullTx |-> FALSE, withSigners |-> TRUE,  inclStaking |-> TRUE],
      [shape |-> "other",     fullTx |-> FALSE, withSigners |-> FALSE, inclStaking |-> FALSE] }

\* The *rpc_common.BlockArgs that GetBlocks hands on.
BlockArgsInputs == {o \in OptsInputs : o.shape = "BlockArgs"}

ArgsOf(opts) ==
    [WithSigners |-> opts.withSigners, FullTx |-> opts.fullTx, InclStaking |-> opts.inclStaking]

\* BlockArgs.UnmarshalFromInterface: a JSON round trip into the struct.
UnmarshalFromInterface(opts) ==
    IF opts.shape \in {"BlockArgs", "object"}
    THEN [args |-> ArgsOf(opts), err |-> Nil]
    ELSE [args |-> NoArgs, err |-> ErrUnmarshalBlockArgs]

C20_getBlockOptions_Mut(v, opts) ==
    IF opts.shape \in {"BlockArgs", "object"}
    THEN [args |-> ArgsOf(opts), err |-> Nil]
    ELSE [args |-> [WithSigners |-> FALSE, FullTx |-> opts.fullTx, InclStaking |-> TRUE],
          err |-> Nil]
\* getBlockOptions: [args, err]
getBlockOptions(v, opts) ==
    IF opts.shape = "BlockArgs"
    THEN [args |-> ArgsOf(opts), err |-> Nil]
    ELSE CASE v \in {V1, Eth} ->
                IF opts.shape # "bool"
                THEN [args |-> NoArgs, err |-> ErrInvalidBlockArgs]
                ELSE [args |-> [WithSigners |-> FALSE, FullTx |-> opts.fullTx,
                                InclStaking |-> TRUE],
                      err |-> Nil]
           [] v = V2 -> UnmarshalFromInterface(opts)
           [] OTHER  -> [args |-> NoArgs, err |-> ErrUnknownRPCVersion]

-----------------------------------------------------------------------------
(* The admission gate *)

NoLimiter == [enabled |-> FALSE, limit |-> 0, tokens |-> 0]

\* The limiter field of the service NewPublicBlockchainAPI builds: the
\* `limiter :=` inside `if limiterEnable` declares a new variable, so the
\* field is set from the outer one, which is still nil.
NewLimiterField(limiterEnable, limit) == NoLimiter

\* rate.Limiter.Allow: takes a token if one is there.
LimiterAllow(lim) ==
    IF lim.tokens >= 1 THEN [ok |-> TRUE, lim |-> [lim EXCEPT !.tokens = @ - 1]]
    ELSE [ok |-> FALSE, lim |-> lim]

\* rate.Limiter.Wait under the deadline: takes a token that is there; with
\* none there it fails at once when the rate is 0, since no token would come
\* before the deadline, and otherwise sleeps until the next token comes and
\* takes it.
LimiterWait(lim) ==
    IF lim.tokens >= 1
    THEN [err |-> Nil, lim |-> [lim EXCEPT !.tokens = @ - 1], taken |-> 1, delayed |-> FALSE]
    ELSE IF lim.limit = 0
         THEN [err |-> ErrRateWait, lim |-> lim, taken |-> 0, delayed |-> FALSE]
         ELSE [err |-> Nil, lim |-> lim, taken |-> 1, delayed |-> TRUE]

\* wait: the error, the limiter after the call, whether the rate-limit
\* counter is incremented, the tokens taken and whether the call slept.
wait(lim) ==
    IF lim.enabled
    THEN LET a == LimiterAllow(lim)
             w == LimiterWait(a.lim)
         IN  [err |-> w.err, lim |-> w.lim, inc |-> ~a.ok,
              taken |-> (IF a.ok THEN 1 ELSE 0) + w.taken, delayed |-> w.delayed]
    ELSE [err |-> Nil, lim |-> lim, inc |-> FALSE, taken |-> 0, delayed |-> FALSE]

\* What a call of wait did at the gate: the tokens it found, the tokens it
\* took, whether it slept and by how much it raised the rate-limit counter.
NoGate == [found |-> 0, taken |-> 0, delayed |-> FALSE, counted |-> 0]
GateObs(lim) ==
    LET w == wait(lim)
    IN  [found |-> lim.tokens, taken |-> w.taken, delayed |-> w.delayed,
         counted |-> IF w.inc THEN 1 ELSE 0]

-----------------------------------------------------------------------------
(* The chain engine and the block factory *)

NoBlock == -1

\* BlockChain.GetBlockByNumber: the block of that number, which is identified
\* by its number, or no block.
ChainGetBlockByNumber(blockNum, hd) ==
    IF blockNum <= hd THEN blockNum ELSE NoBlock

\* The hashes a request may name: Hash h is the hash of block h.
Hashes == 0 .. (MaxHead + 1)

\* hmy.GetBlock: the block of that hash; a hash of no block is reported
\* either as (nil, nil) or as (nil, error).
EngineReports == {"nilnil", "error"}
HmyGetBlock(hash, hd, how) ==
    IF hash <= hd THEN [blk |-> hash, err |-> Nil]
    ELSE IF how = "nilnil" THEN [blk |-> NoBlock, err |-> Nil]
    ELSE [blk |-> NoBlock, err |-> ErrEngine]

\* rpcBlockFactory.NewBlock: a rendered block or an error.
FactoryOutcomes == {"ok", "err"}
RenderedBlock(v, blk) == [v |-> v, number |-> blk]
NewBlock(v, blk, args, fac) ==
    IF fac = "ok" THEN [block |-> <<RenderedBlock(v, blk)>>, err |-> Nil]
    ELSE [block |-> <<>>, err |-> ErrNewBlock]

-----------------------------------------------------------------------------
(* GetBlockByNumber and GetBlockByHash *)

\* A handler's result: res is the response (<<>> when nil), fetched and
\* factory count the chain fetches and the NewBlock calls it made.
Result(resNil, res, err, fetched, factory) ==
    [resNil |-> resNil, res |-> res, err |-> err, fetched |-> fetched, factory |-> factory]

C2_IsPending_Mut(blockNumber) == FALSE
IsPending(blockNumber) == blockNumber = PendingBlockNumber

C1_BlockNotFound_Mut(v) == Result(TRUE, <<>>, ErrRequestedBlockTooHigh, 1, 0)
\* blk == nil
BlockNotFound(v) ==
    IF v = Eth THEN Result(TRUE, <<>>, Nil, 1, 0)
    ELSE Result(TRUE, <<>>, ErrRequestedBlockTooHigh, 1, 0)

GetBlockByNumberImpl(v, lim, hd, blockNumber, opts, fac) ==
    LET w        == wait(lim)
        o        == getBlockOptions(v, opts)
        blockNum == IF blockNumber = LatestBlockNumber THEN hd ELSE Uint(blockNumber)
        blk      == ChainGetBlockByNumber(blockNum, hd)
        rpcBlock == NewBlock(v, blk, o.args, fac)
    IN  IF w.err # Nil THEN Result(TRUE, <<>>, w.err, 0, 0)
        ELSE IF o.err # Nil THEN Result(TRUE, <<>>, o.err, 0, 0)
        ELSE IF IsPending(blockNumber)
             THEN Result(TRUE, <<>>, ErrPendingNotImplemented, 0, 0)
        ELSE IF blk = NoBlock THEN BlockNotFound(v)
        ELSE IF rpcBlock.err # Nil THEN Result(TRUE, <<>>, rpcBlock.err, 1, 1)
        ELSE Result(FALSE, rpcBlock.block, Nil, 1, 1)

GetBlockByHashImpl(v, lim, hd, blockHash, opts, how, fac) ==
    LET w        == wait(lim)
        o        == getBlockOptions(v, opts)
        g        == HmyGetBlock(blockHash, hd, how)
        rpcBlock == NewBlock(v, g.blk, o.args, fac)
    IN  IF w.err # Nil THEN Result(TRUE, <<>>, w.err, 0, 0)
        ELSE IF o.err # Nil THEN Result(TRUE, <<>>, o.err, 0, 0)
        ELSE IF g.err # Nil \/ g.blk = NoBlock THEN Result(TRUE, <<>>, g.err, 1, 0)
        ELSE IF rpcBlock.err # Nil THEN Result(TRUE, <<>>, rpcBlock.err, 1, 1)
        ELSE Result(FALSE, rpcBlock.block, Nil, 1, 1)

-----------------------------------------------------------------------------
(* State of the service *)

NoCall == [op |-> "none", num |-> 0, endNum |-> 0, opts |-> CHOOSE o \in OptsInputs : o.shape = "other",
           head |-> 0, how |-> "nilnil"]
IdleFrame == [pc |-> "idle", blockStart |-> 0, blockEnd |-> 0, i |-> 0, result |-> <<>>,
              checked |-> 0, ctxAtCheck |-> FALSE, passed |-> 0, headSeen |-> 0,
              exit |-> "none"]
NoRet == [resNil |-> TRUE, res |-> <<>>, err |-> Nil]
NoObs == [fetched |-> 0, factory |-> 0, calls |-> 0, fetchNum |-> 0, fetchHead |-> 0,
          gate |-> NoGate]

Ret(r) == [resNil |-> r.resNil, res |-> r.res, err |-> r.err]

\* The block numbers a request may name.
NumberInputs == {PendingBlockNumber, LatestBlockNumber, -3} \cup (0 .. (MaxHead + 1)) \cup {MaxInt}
StartInputs  == {PendingBlockNumber, LatestBlockNumber, 0, 1, 2}
EndInputs    == {PendingBlockNumber, LatestBlockNumber, 0, 2, MaxHead + 1, rpcGetBlocksLimit,
                 rpcGetBlocksLimit + 1, rpcGetBlocksLimit + 2, MaxInt}

CacheIdle ==
    /\ cache = [leader |-> <<>>, signers |-> <<>>, stakingTxs |-> <<>>]
    /\ procs = <<>>
    /\ up = TRUE
    /\ last = [kind |-> "none", n |-> 0, value |-> [t |-> "nil"], err |-> Nil, computed |-> FALSE]

SignerIdle ==
    /\ slots = <<>>
    /\ mask = <<>>
    /\ sd = [state |-> "none"]

ServiceIdle ==
    /\ \E limiterEnable \in BOOLEAN, limit \in {0, 1} :
           limiter = NewLimiterField(limiterEnable, limit)
    /\ head = 0
    /\ call = NoCall
    /\ gb = IdleFrame
    /\ ctxDone = FALSE
    /\ ret = NoRet
    /\ obs = NoObs

Init ==
    /\ version \in Versions
    /\ \E limiterEnable \in BOOLEAN, limit \in {0, 1} :
           limiter = NewLimiterField(limiterEnable, limit)
    /\ head \in 0 .. 1
    /\ call = NoCall
    /\ gb = IdleFrame
    /\ ctxDone = FALSE
    /\ ret = NoRet
    /\ obs = NoObs
    /\ CacheIdle
    /\ SignerIdle

Serving == gb.pc \in {"loop", "head", "fetch"}

\* No query is being served and the last response has been delivered.
Ready == call.op = "none"

\* The chain engine appends a block.
AdvanceHead ==
    /\ head < MaxHead
    /\ head' = head + 1
    /\ UNCHANGED <<version, limiter, call, gb, ctxDone, ret, obs>>
    /\ UNCHANGED <<cacheVars, signerVars>>

GetBlockByNumber(blockNumber, opts, fac) ==
    /\ Ready
    /\ LET r == GetBlockByNumberImpl(version, limiter, head, blockNumber, opts, fac)
       IN  /\ ret' = Ret(r)
           /\ obs' = [NoObs EXCEPT !.fetched = r.fetched, !.factory = r.factory,
                                   !.gate = GateObs(limiter)]
    /\ limiter' = wait(limiter).lim
    /\ call' = [NoCall EXCEPT !.op = "GetBlockByNumber", !.num = blockNumber,
                              !.opts = opts, !.head = head]
    /\ gb' = IdleFrame
    /\ ctxDone' = FALSE
    /\ UNCHANGED <<version, head>>
    /\ UNCHANGED <<cacheVars, signerVars>>

GetBlockByHash(blockHash, opts, how, fac) ==
    /\ Ready
    /\ LET r == GetBlockByHashImpl(version, limiter, head, blockHash, opts, how, fac)
       IN  /\ ret' = Ret(r)
           /\ obs' = [NoObs EXCEPT !.fetched = r.fetched, !.factory = r.factory,
                                   !.gate = GateObs(limiter)]
    /\ limiter' = wait(limiter).lim
    /\ call' = [NoCall EXCEPT !.op = "GetBlockByHash", !.num = blockHash,
                              !.opts = opts, !.head = head, !.how = how]
    /\ gb' = IdleFrame
    /\ ctxDone' = FALSE
    /\ UNCHANGED <<version, head>>
    /\ UNCHANGED <<cacheVars, signerVars>>

-----------------------------------------------------------------------------
(* GetBlocks, one step of its loop at a time *)

\* blockEnd >= blockStart && blockEnd-blockStart > rpcGetBlocksLimit, in int64
RangeTooWide(blockStart, blockEnd) ==
    /\ blockEnd >= blockStart
    /\ WrapInt(blockEnd - blockStart) > rpcGetBlocksLimit

C6_CtxDone_Mut(done) == FALSE
\* select { case <-ctx.Done(): ... default: }
CtxDone(done) == done

C5_PastHead_Mut(i, hd) == i >= hd
\* blockNum.Int64() > s.hmy.CurrentBlock().Number().Int64()
PastHead(i, hd) == i > hd

Return(frame, why, r) ==
    /\ gb' = [frame EXCEPT !.pc = "done", !.exit = why]
    /\ ret' = r

GetBlocksCall(blockNumberStart, blockNumberEnd, blockArgs) ==
    /\ Ready
    /\ call' = [NoCall EXCEPT !.op = "GetBlocks", !.num = blockNumberStart,
                              !.endNum = blockNumberEnd, !.opts = blockArgs, !.head = head]
    /\ obs' = NoObs
    /\ ctxDone' = FALSE
    /\ LET blockStart == blockNumberStart
           blockEnd   == IF blockNumberEnd = LatestBlockNumber THEN head ELSE blockNumberEnd
           frame      == [IdleFrame EXCEPT !.blockStart = blockStart, !.blockEnd = blockEnd,
                                           !.i = blockStart]
       IN  IF RangeTooWide(blockStart, blockEnd)
           THEN Return(frame, "size", [resNil |-> TRUE, res |-> <<>>, err |-> ErrGetBlocksSize])
           ELSE /\ gb' = [frame EXCEPT !.pc = "loop"]
                /\ ret' = NoRet
    /\ UNCHANGED <<version, limiter, head>>
    /\ UNCHANGED <<cacheVars, signerVars>>

\* The loop condition and the check of the caller's context.
GetBlocksLoop ==
    /\ gb.pc = "loop"
    /\ IF ~(gb.i <= gb.blockEnd)
       THEN Return(gb, "end", [resNil |-> FALSE, res |-> gb.result, err |-> Nil])
       ELSE IF CtxDone(ctxDone)
            THEN Return([gb EXCEPT !.checked = gb.i, !.ctxAtCheck = ctxDone], "cancel",
                        [resNil |-> TRUE, res |-> <<>>, err |-> ErrContextCanceled])
            ELSE /\ gb' = [gb EXCEPT !.pc = "head", !.checked = gb.i,
                                     !.ctxAtCheck = ctxDone, !.passed = @ + 1]
                 /\ UNCHANGED ret
    /\ UNCHANGED <<version, limiter, head, call, ctxDone, obs>>
    /\ UNCHANGED <<cacheVars, signerVars>>

\* The comparison of the iteration's number with the current block's.
GetBlocksHead ==
    /\ gb.pc = "head"
    /\ IF PastHead(gb.i, head)
       THEN Return([gb EXCEPT !.headSeen = head], "break",
                   [resNil |-> FALSE, res |-> gb.result, err |-> Nil])
       ELSE /\ gb' = [gb EXCEPT !.pc = "fetch", !.headSeen = head]
            /\ UNCHANGED ret
    /\ UNCHANGED <<version, limiter, head, call, ctxDone, obs>>
    /\ UNCHANGED <<cacheVars, signerVars>>

\* The iteration's s.GetBlockByNumber(ctx, blockNum, blockArgs) and the append.
GetBlocksFetch(fac) ==
    /\ gb.pc = "fetch"
    /\ LET r == GetBlockByNumberImpl(version, limiter, head, gb.i, call.opts, fac)
       IN  /\ obs' = [obs EXCEPT !.fetched = @ + r.fetched, !.factory = @ + r.factory,
                                 !.calls = @ + 1, !.fetchNum = gb.i,
                                 !.fetchHead = gb.headSeen, !.gate = GateObs(limiter)]
           /\ IF r.err # Nil
              THEN Return(gb, "error", [resNil |-> TRUE, res |-> <<>>, err |-> r.err])
              ELSE /\ gb' = [gb EXCEPT !.pc = "loop", !.i = WrapInt(gb.i + 1),
                                       !.result = IF r.resNil THEN @ ELSE @ \o r.res]
                   /\ UNCHANGED ret
    /\ limiter' = wait(limiter).lim
    /\ UNCHANGED <<version, head, call, ctxDone>>
    /\ UNCHANGED <<cacheVars, signerVars>>

\* The caller cancels the context of the GetBlocks call in progress.
Cancel ==
    /\ Serving
    /\ ~ctxDone
    /\ ctxDone' = TRUE
    /\ UNCHANGED <<version, limiter, head, call, gb, ret, obs>>
    /\ UNCHANGED <<cacheVars, signerVars>>

\* The response of the query served goes back to the caller.
Respond ==
    /\ ~Ready
    /\ ~Serving
    /\ call' = NoCall
    /\ gb' = IdleFrame
    /\ ctxDone' = FALSE
    /\ ret' = NoRet
    /\ obs' = NoObs
    /\ UNCHANGED <<version, limiter, head>>
    /\ UNCHANGED <<cacheVars, signerVars>>

Next ==
    \/ AdvanceHead
    \/ Respond
    \/ \E n \in NumberInputs, o \in OptsInputs, fac \in FactoryOutcomes :
           GetBlockByNumber(n, o, fac)
    \/ \E h \in Hashes, o \in OptsInputs, how \in EngineReports, fac \in FactoryOutcomes :
           GetBlockByHash(h, o, how, fac)
    \/ \E s \in StartInputs, e \in EndInputs, a \in BlockArgsInputs :
           GetBlocksCall(s, e, a)
    \/ GetBlocksLoop
    \/ GetBlocksHead
    \/ \E fac \in FactoryOutcomes : GetBlocksFetch(fac)
    \/ Cancel

Spec == Init /\ [][Next]_vars

-----------------------------------------------------------------------------
(* Properties of the query handlers, checked under Spec *)

OptionsParsed == getBlockOptions(version, call.opts).err = Nil

\* The rendered blocks of the numbers from..to, in ascending order.
RenderedRange(v, from, to) ==
    IF to < from THEN <<>>
    ELSE [k \in 1 .. (to - from + 1) |-> RenderedBlock(v, from + k - 1)]

\* C1: GetBlockByNumber for a numeric height above the chain head, the gate
\* having admitted the request and the options having parsed, returns nil
\* with no error on the Eth variant and ErrRequestedBlockTooHigh on V1 and
\* V2, and does not invoke the block factory.
C1_NotProducedHeight ==
    (/\ call.op = "GetBlockByNumber"
     /\ call.num >= 0
     /\ call.num > call.head
     /\ wait(limiter).err = Nil
     /\ OptionsParsed)
    => /\ ret.resNil
       /\ version = Eth => ret.err = Nil
       /\ version \in {V1, V2} => ret.err = ErrRequestedBlockTooHigh
       /\ obs.factory = 0

C1_Witness ==
    /\ call.op = "GetBlockByNumber"
    /\ call.num = call.head + 1
    /\ OptionsParsed
    /\ version = Eth
    /\ ret.resNil
    /\ ret.err = Nil

\* C2: GetBlockByNumber with the Pending sentinel returns an error and no
\* block, for every variant, options value and chain state, and fetches no
\* block from the chain engine.
C2_PendingAlwaysFails ==
    (call.op = "GetBlockByNumber" /\ call.num = PendingBlockNumber)
    => /\ ret.err # Nil
       /\ ret.resNil
       /\ obs.fetched = 0
       /\ obs.factory = 0

C2_Witness ==
    /\ call.op = "GetBlockByNumber"
    /\ call.num = PendingBlockNumber
    /\ version = Eth
    /\ OptionsParsed
    /\ ret.err = ErrPendingNotImplemented

\* C3: GetBlockByHash for a hash of which the chain engine has no block
\* returns a non-nil error, for every variant, also when the engine reports
\* the absence as (no block, no error).
C3_HashAbsenceIsError ==
    (call.op = "GetBlockByHash" /\ call.num > call.head) => ret.err # Nil

\* C4: GetBlocks(start, end) with end - start > 1024, end not Latest, fails
\* with the range-size error before any block is fetched, for every pair of
\* start and end of the integer width and every chain head.
C4_RangeSizeAlwaysRejected ==
    (/\ call.op = "GetBlocks"
     /\ call.endNum # LatestBlockNumber
     /\ call.endNum - call.num > rpcGetBlocksLimit)
    => /\ gb.exit = "size"
       /\ ret.err = ErrGetBlocksSize
       /\ obs.fetched = 0

\* C5: GetBlocks with 0 <= start whose loop stops because the number asked
\* for is above the head (so end is above the head, nothing was cancelled
\* and no block failed) returns without error exactly the rendered blocks
\* start..head, head being the head read at the iteration that stopped the
\* loop, which is at least the head at the time of the call; and no
\* iteration asks GetBlockByNumber for a number above the head it read.
C5_RangeStopsAtHead ==
    /\ (gb.exit = "break" /\ call.num >= 0)
       => /\ gb.blockEnd > gb.headSeen
          /\ call.head <= gb.headSeen
          /\ gb.headSeen <= head
          /\ ret.err = Nil
          /\ ~ret.resNil
          /\ ret.res = RenderedRange(version, call.num, gb.headSeen)
    /\ (call.op = "GetBlocks" /\ call.num >= 0 /\ obs.calls > 0)
       => /\ obs.fetchNum <= obs.fetchHead
          /\ obs.fetchHead <= head

C5_Witness ==
    /\ gb.exit = "break"
    /\ call.num = 1
    /\ call.head = 1
    /\ gb.headSeen = 2
    /\ Len(ret.res) = 2
    /\ ret.err = Nil

\* C6 as stated, for a call whose loop has started an iteration: once
\* cancellation is signalled, no further block is fetched and the call
\* returns the context's cancellation error with a nil result.
C6_OnceCancelledNothingMore ==
    [][(ctxDone /\ gb.passed >= 1) =>
         /\ obs'.calls <= obs.calls
         /\ (gb.pc # "done" /\ gb'.pc = "done")
            => (ret'.resNil /\ ret'.err = ErrContextCanceled)]_vars

\* C6 amended: the cancellation signal is checked at the start of every
\* loop iteration before the block of that iteration is fetched: an
\* iteration goes on to its fetch only when its own check found the context
\* not cancelled; when a check finds it cancelled, the call returns the
\* context's error with a nil result and fetches nothing more.
C6_CancellationCheckedPerIteration ==
    /\ gb.pc \in {"head", "fetch"}
       => /\ gb.checked = gb.i
          /\ ~gb.ctxAtCheck
          /\ gb.passed = obs.calls + 1
    /\ gb.exit = "cancel"
       => /\ gb.pc = "done"
          /\ gb.ctxAtCheck
          /\ ret.resNil
          /\ ret.res = <<>>
          /\ ret.err = ErrContextCanceled
          /\ obs.calls = gb.passed

C6_Witness ==
    /\ gb.exit = "cancel"
    /\ Len(gb.result) >= 1
    /\ obs.calls >= 1
    /\ ret.resNil
    /\ ret.err = ErrContextCanceled

\* The queries that call wait before anything else.
GatedOps == {"GetBlockByNumber", "GetBlockByHash"}

\* C17 as stated: on a service whose limiter field is the one that
\* NewPublicBlockchainAPI builds with the limiter enabled and rate 0, every
\* gated query fails with the gate's deadline error and fetches nothing from
\* the chain engine. The field is nil, so wait admits every query.
C17_RateZeroAlwaysTimesOut ==
    (limiter = NewLimiterField(TRUE, 0) /\ call.op \in GatedOps)
    => /\ ret.err = ErrRateWait
       /\ obs.fetched = 0

\* Whether an options value has a shape the service of version v recognizes.
Recognized(v, opts) ==
    \/ opts.shape = "BlockArgs"
    \/ v \in {V1, Eth} /\ opts.shape = "bool"
    \/ v = V2 /\ UnmarshalFromInterface(opts).err = Nil

\* C20: GetBlockByNumber and GetBlockByHash, given an options value that is
\* not of a shape the service's version recognizes, return an error and no
\* block, and neither fetch a block nor call the block factory.
C20_UnrecognizedOptionsRejected ==
    (call.op \in GatedOps /\ ~Recognized(version, call.opts))
    => /\ ret.err \in {ErrInvalidBlockArgs, ErrUnmarshalBlockArgs}
       /\ ret.resNil
       /\ ret.res = <<>>
       /\ obs.fetched = 0
       /\ obs.factory = 0

\* A V1 service is given a JSON object, which only V2 recognizes, for a
\* block that exists.
C20_Witness ==
    /\ call.op = "GetBlockByNumber"
    /\ version = V1
    /\ call.opts.shape = "object"
    /\ call.num >= 0
    /\ call.num <= call.head
    /\ ret.err = ErrInvalidBlockArgs
    /\ obs.fetched = 0

-----------------------------------------------------------------------------
(* The signer resolver: getSignerData(hmy, number) *)

\* The committee roster has at most MaxSlots slots.
MaxSlots == 3

Addresses == {"a1", "a2", "bad"}
BLSKeys   == {"k1", "k2", "k3"}

ErrBech32     == "cannot encode address"
ErrKeyEnabled == "key not found in mask"

\* shard.Slot
SlotValues == [EcdsaAddress : Addresses, BLSPublicKey : BLSKeys]
\* shard.SlotList, up to n slots
RECURSIVE SlotLists(_)
SlotLists(n) ==
    IF n = 0 THEN {<<>>}
    ELSE LET shorter == SlotLists(n - 1)
         IN  shorter \cup {Append(l, x) : l \in {m \in shorter : Len(m) = n - 1}, x \in SlotValues}

\* internal_bls.Mask: for each key, whether its bit is set, or that the key
\* is not one the mask can evaluate.
MaskValues == [BLSKeys -> {"on", "off", "err"}]

\* internal_common.AddressToBech32
AddressToBech32(addr) ==
    IF addr = "bad" THEN [s |-> "", err |-> ErrBech32]
    ELSE [s |-> <<"one1", addr>>, err |-> Nil]

\* bls.SerializedPublicKey.Hex
Hex(key) == <<"hex", key>>

\* Mask.KeyEnabled
KeyEnabled(m, key) ==
    IF m[key] = "err" THEN [ok |-> FALSE, err |-> ErrKeyEnabled]
    ELSE [ok |-> m[key] = "on", err |-> Nil]

\* hmy.GetBlockSigners: the roster and the mask of the block, or an error.
HmyGetBlockSigners(sl, m, engineOK) ==
    IF engineOK THEN [slots |-> sl, mask |-> m, err |-> Nil]
    ELSE [slots |-> <<>>, mask |-> m, err |-> ErrEngine]

NoSignerData == [t |-> "nil"]

C10_AppendSigner_Mut(acc, oneAddress, blsHex) ==
    [acc EXCEPT !.signers = Append(@, oneAddress)]
\* blsSigners = append(blsSigners, ...); signers = append(signers, oneAddress)
AppendSigner(acc, oneAddress, blsHex) ==
    [acc EXCEPT !.blsSigners = Append(@, blsHex), !.signers = Append(@, oneAddress)]

C11_Enabled_Mut(e) == e.err = Nil
\* ok, err := mask.KeyEnabled(...); err == nil && ok
Enabled(e) == e.err = Nil /\ e.ok

\* The loop over the roster, from slot i on; acc carries signers, blsSigners
\* and the error that ended the loop.
RECURSIVE ResolveFrom(_, _, _, _)
ResolveFrom(sl, m, i, acc) ==
    IF i > Len(sl) THEN acc
    ELSE LET validator  == sl[i]
             oneAddress == AddressToBech32(validator.EcdsaAddress)
             enabled    == KeyEnabled(m, validator.BLSPublicKey)
         IN  IF oneAddress.err # Nil THEN [acc EXCEPT !.err = oneAddress.err]
             ELSE IF Enabled(enabled)
                  THEN ResolveFrom(sl, m, i + 1,
                                   AppendSigner(acc, oneAddress.s, Hex(validator.BLSPublicKey)))
                  ELSE ResolveFrom(sl, m, i + 1, acc)

\* getSignerData: [sd, err]
getSignerData(g) ==
    IF g.err # Nil THEN [sd |-> NoSignerData, err |-> g.err]
    ELSE LET r == ResolveFrom(g.slots, g.mask, 1,
                              [signers |-> <<>>, blsSigners |-> <<>>, err |-> Nil])
         IN  IF r.err # Nil THEN [sd |-> NoSignerData, err |-> r.err]
             ELSE [sd |-> [t |-> "signerData", signers |-> r.signers,
                           blsSigners |-> r.blsSigners, slots |-> g.slots, mask |-> g.mask],
                   err |-> Nil]

InitSigner ==
    /\ version \in Versions
    /\ ServiceIdle
    /\ CacheIdle
    /\ slots \in SlotLists(MaxSlots)
    /\ mask \in MaskValues
    /\ sd = [state |-> "none"]

\* getSignerData is applied to the roster and the mask.
ResolveSigners(engineOK) ==
    /\ sd.state = "none"
    /\ LET r == getSignerData(HmyGetBlockSigners(slots, mask, engineOK))
       IN  sd' = [state |-> "done", sd |-> r.sd, err |-> r.err]
    /\ UNCHANGED <<slots, mask>>
    /\ UNCHANGED <<serviceVars, cacheVars>>

NextSigner == \E engineOK \in BOOLEAN : ResolveSigners(engineOK)

SpecSigner == InitSigner /\ [][NextSigner]_vars

\* C10: for every roster and signature mask, the signer data getSignerData
\* produces has signers and blsSigners of equal length, and for every index
\* i signers[i] and blsSigners[i] are the address and the BLS key of one
\* and the same slot of the roster.
C10_SignersInLockStep ==
    (sd.state = "done" /\ sd.err = Nil)
    => /\ Len(sd.sd.signers) = Len(sd.sd.blsSigners)
       /\ \A i \in 1 .. Len(sd.sd.signers) :
              \E j \in 1 .. Len(slots) :
                  /\ AddressToBech32(slots[j].EcdsaAddress).err = Nil
                  /\ sd.sd.signers[i] = AddressToBech32(slots[j].EcdsaAddress).s
                  /\ sd.sd.blsSigners[i] = Hex(slots[j].BLSPublicKey)

C10_Witness ==
    /\ sd.state = "done"
    /\ sd.err = Nil
    /\ Len(slots) = 3
    /\ slots[1].EcdsaAddress = slots[3].EcdsaAddress
    /\ slots[1].BLSPublicKey # slots[3].BLSPublicKey
    /\ mask[slots[2].BLSPublicKey] = "off"
    /\ Len(sd.sd.signers) = 2
    /\ Len(sd.sd.blsSigners) = 2

\* The addresses of the slots of roster sl whose key mask m marks as
\* enabled, in roster order.
RECURSIVE EnabledAddresses(_, _)
EnabledAddresses(sl, m) ==
    IF sl = <<>> THEN <<>>
    ELSE (IF m[Head(sl).BLSPublicKey] = "on"
          THEN <<AddressToBech32(Head(sl).EcdsaAddress).s>>
          ELSE <<>>) \o EnabledAddresses(Tail(sl), m)

\* C11: for every roster and mask on which resolution succeeds, the signers
\* list of getSignerData is exactly the subsequence of the roster made of
\* the slots whose BLS key the mask marks as enabled, in roster order.
C11_SignersAreEnabledSubsequence ==
    (sd.state = "done" /\ sd.err = Nil)
    => sd.sd.signers = EnabledAddresses(slots, mask)

\* A roster of three slots resolved with the middle slot's key disabled and
\* the outer two enabled.
C11_Witness ==
    /\ sd.state = "done"
    /\ sd.err = Nil
    /\ Len(slots) = 3
    /\ slots[1].EcdsaAddress # slots[3].EcdsaAddress
    /\ mask[slots[1].BLSPublicKey] = "on"
    /\ mask[slots[2].BLSPublicKey] = "off"
    /\ mask[slots[3].BLSPublicKey] = "on"
    /\ sd.sd.signers = <<AddressToBech32(slots[1].EcdsaAddress).s,
                         AddressToBech32(slots[3].EcdsaAddress).s>>

\* C12 as stated: if the mask cannot evaluate the BLS key of some slot of
\* the roster, getSignerData fails. The code drops the error of KeyEnabled
\* and skips the slot, so resolution succeeds without it.
C12_KeyErrorFailsResolution ==
    (/\ sd.state = "done"
     /\ \E j \in 1 .. Len(slots) : KeyEnabled(mask, slots[j].BLSPublicKey).err # Nil)
    => sd.err # Nil

-----------------------------------------------------------------------------
(* The derived-data caches: bcServiceCache and the helper's lookups *)

\* The capacity of each cache: blockCacheSize is 2048 in the source and is
\* scaled down here so that the model's block numbers fill a cache.
blockCacheSize == 2
signersCacheSize    == blockCacheSize
stakingTxsCacheSize == blockCacheSize
C23_leaderCacheSize_Mut == blockCacheSize + 1
leaderCacheSize     == blockCacheSize

\* The caches hold blocks 0..MaxBlock.
MaxBlock == 2
Blocks == 0 .. MaxBlock

Kinds == {"leader", "signers", "stakingTxs"}
Procs == {1, 2}

ErrStakingUnsupported == "staking transaction data is unsupported to Eth service"
ErrStakingTxs         == "cannot render staking transactions"
ErrUnsupportedVersion == "unsupported version"

NilValue == [t |-> "nil"]

(* lru.Cache: a list of entries, the most recently used first *)

LruIndex(c, k) ==
    IF \E i \in 1 .. Len(c) : c[i].key = k
    THEN CHOOSE i \in 1 .. Len(c) : c[i].key = k
    ELSE 0

LruContains(c, k) == LruIndex(c, k) # 0

LruWithout(c, i) == SubSeq(c, 1, i - 1) \o SubSeq(c, i + 1, Len(c))

\* Cache.Get: (value, ok); a hit moves the entry to the front.
LruGet(c, k) ==
    LET i == LruIndex(c, k)
    IN  IF i = 0 THEN [ok |-> FALSE, value |-> NilValue, cache |-> c]
        ELSE [ok |-> TRUE, value |-> c[i].value, cache |-> <<c[i]>> \o LruWithout(c, i)]

\* Cache.Add: an entry of the key is overwritten and moved to the front; a
\* new entry goes to the front and the oldest one is evicted beyond size.
LruAdd(c, k, v, size) ==
    LET i == LruIndex(c, k)
        e == [key |-> k, value |-> v]
    IN  IF i # 0 THEN <<e>> \o LruWithout(c, i)
        ELSE IF Len(c) + 1 > size THEN SubSeq(<<e>> \o c, 1, size)
        ELSE <<e>> \o c

(* The chain data the derived values are computed from *)

\* The roster and the mask of block n.
ChainSlots(n) ==
    << [EcdsaAddress |-> "a1", BLSPublicKey |-> "k1"],
       [EcdsaAddress |-> "a2", BLSPublicKey |-> "k2"],
       [EcdsaAddress |-> "a1", BLSPublicKey |-> "k3"] >>
ChainMask(n) ==
    [k \in BLSKeys |-> IF k = "k1" THEN "on"
                       ELSE IF k = "k2" THEN (IF n % 2 = 0 THEN "on" ELSE "off")
                       ELSE (IF n >= 2 THEN "on" ELSE "off")]

\* hmy.GetLeaderAddress(b.Coinbase(), b.Epoch())
GetLeaderAddress(n) == [t |-> "leader", coinbase |-> n]

\* v1.StakingTransactionsFromBlock / v2.StakingTransactionsFromBlock
StakingTransactionsFromBlock(v, n, upOK) ==
    IF upOK THEN [value |-> [t |-> "stakingTxs", v |-> v, block |-> n], err |-> Nil]
    ELSE [value |-> NilValue, err |-> ErrStakingTxs]

C9_BlockKey_Mut(n) == n \div 2
\* b.NumberU64(), bn
BlockKey(n) == n

C8_CacheHit_Mut(g) == g.ok /\ g.value = NilValue
\* ok && x != nil
CacheHit(g) == g.ok /\ g.value # NilValue

Looked(c, value, err) == [cache |-> c, value |-> value, err |-> err]

\* errors.Wrap(err, "getSignerData")
ErrorsWrap(err) ==
    CASE err = ErrEngine -> "getSignerData: chain engine error"
      [] err = ErrBech32 -> "getSignerData: cannot encode address"
      [] OTHER           -> "getSignerData: error"

\* GetLeader after a miss
GetLeaderMiss(c, n) ==
    LET leader == GetLeaderAddress(n)
    IN  Looked(LruAdd(c, BlockKey(n), leader, leaderCacheSize), leader, Nil)

C16_GetStakingTxsMiss_Mut(c, v, n, upOK) ==
    LET r == StakingTransactionsFromBlock(v, n, upOK)
    IN  IF r.err # Nil THEN Looked(c, NilValue, r.err)
        ELSE Looked(LruAdd(c, BlockKey(n), r.value, stakingTxsCacheSize), r.value, Nil)
\* GetStakingTxs after a miss
GetStakingTxsMiss(c, v, n, upOK) ==
    LET r == CASE v = V1  -> StakingTransactionsFromBlock(V1, n, upOK)
               [] v = V2  -> StakingTransactionsFromBlock(V2, n, upOK)
               [] v = Eth -> [value |-> NilValue, err |-> ErrStakingUnsupported]
               [] OTHER   -> [value |-> NilValue, err |-> ErrUnsupportedVersion]
    IN  IF r.err # Nil THEN Looked(c, NilValue, r.err)
        ELSE Looked(LruAdd(c, BlockKey(n), r.value, stakingTxsCacheSize), r.value, Nil)

C7_getSignerDataMiss_Mut(c, bn, upOK) ==
    LET r == getSignerData(HmyGetBlockSigners(ChainSlots(bn), ChainMask(bn), upOK))
        added == LruAdd(c, BlockKey(bn), IF r.err # Nil THEN NilValue ELSE r.sd, signersCacheSize)
    IN  IF r.err # Nil THEN Looked(added, NilValue, ErrorsWrap(r.err))
        ELSE Looked(added, r.sd, Nil)
\* helper.getSignerData after a miss
getSignerDataMiss(c, bn, upOK) ==
    LET r == getSignerData(HmyGetBlockSigners(ChainSlots(bn), ChainMask(bn), upOK))
    IN  IF r.err # Nil THEN Looked(c, NilValue, ErrorsWrap(r.err))
        ELSE Looked(LruAdd(c, BlockKey(bn), r.sd, signersCacheSize), r.sd, Nil)

\* The part of a lookup that follows a miss, for each cache.
Miss(kind, c, v, n, upOK) ==
    CASE kind = "leader"     -> GetLeaderMiss(c, n)
      [] kind = "stakingTxs" -> GetStakingTxsMiss(c, v, n, upOK)
      [] kind = "signers"    -> getSignerDataMiss(c, n, upOK)

IdleProc == [pc |-> "idle", kind |-> "none", n |-> 0]

InitCache ==
    /\ version \in Versions
    /\ ServiceIdle
    /\ SignerIdle
    /\ cache = [leader |-> <<>>, signers |-> <<>>, stakingTxs |-> <<>>]
    /\ procs = [p \in Procs |-> IdleProc]
    /\ up \in BOOLEAN
    /\ last = [kind |-> "none", n |-> 0, value |-> [t |-> "nil"], err |-> Nil, computed |-> FALSE]

\* The three caches are separate lru.Cache objects and a lookup touches one
\* of them: the specification follows the requests to one cache at a time.
OneCacheInUse(kind) ==
    /\ \A c \in Kinds \ {kind} : cache[c] = <<>>
    /\ \A q \in Procs : procs[q].pc = "miss" => procs[q].kind = kind

\* The cache.Get of GetLeader, GetStakingTxs or getSignerData by request p,
\* with the return on a hit.
LookupGet(p, kind, n) ==
    /\ procs[p].pc = "idle"
    /\ OneCacheInUse(kind)
    /\ LET g == LruGet(cache[kind], BlockKey(n))
       IN  /\ cache' = [cache EXCEPT ![kind] = g.cache]
           /\ IF CacheHit(g)
              THEN /\ last' = [kind |-> kind, n |-> n, value |-> g.value, err |-> Nil,
                               computed |-> FALSE]
                   /\ UNCHANGED procs
              ELSE /\ procs' = [procs EXCEPT ![p] = [pc |-> "miss", kind |-> kind, n |-> n]]
                   /\ UNCHANGED last
    /\ UNCHANGED up
    /\ UNCHANGED <<serviceVars, signerVars>>

\* The computation after the miss of request p, the cache.Add on success
\* and the return.
LookupCompute(p) ==
    /\ procs[p].pc = "miss"
    /\ LET kind == procs[p].kind
           n    == procs[p].n
           r    == Miss(kind, cache[kind], version, n, up)
       IN  /\ cache' = [cache EXCEPT ![kind] = r.cache]
           /\ last' = [kind |-> kind, n |-> n, value |-> r.value, err |-> r.err,
                       computed |-> TRUE]
    /\ procs' = [procs EXCEPT ![p] = IdleProc]
    /\ UNCHANGED up
    /\ UNCHANGED <<serviceVars, signerVars>>

\* The data a derived computation reads becomes readable or unreadable.
UpstreamChange ==
    /\ up' = ~up
    /\ UNCHANGED <<cache, procs, last>>
    /\ UNCHANGED <<serviceVars, signerVars>>

NextCache ==
    \/ \E p \in Procs, kind \in Kinds, n \in Blocks : LookupGet(p, kind, n)
    \/ \E p \in Procs : LookupCompute(p)
    \/ UpstreamChange

SpecCache == InitCache /\ [][NextCache]_vars

-----------------------------------------------------------------------------
(* Properties of the caches, checked under SpecCache *)

\* Whether the computation behind cache `kind` can succeed for this service
\* with the upstream data as it is.
Computable(kind, v, upOK) ==
    CASE kind = "leader"     -> TRUE
      [] kind = "signers"    -> upOK
      [] kind = "stakingTxs" -> upOK /\ v \in {V1, V2}

\* The value the underlying computation yields for block n.
DerivedValue(kind, v, n) ==
    CASE kind = "leader"     -> GetLeaderAddress(n)
      [] kind = "signers"    -> getSignerData(HmyGetBlockSigners(ChainSlots(n), ChainMask(n), TRUE)).sd
      [] kind = "stakingTxs" -> StakingTransactionsFromBlock(v, n, TRUE).value

\* Whether the chain data the computation behind cache `kind` reads is
\* available.
Available(kind, upOK) ==
    CASE kind = "leader"     -> TRUE
      [] kind = "signers"    -> upOK
      [] kind = "stakingTxs" -> upOK

\* C7 as stated: after a lookup of a key has failed, a later lookup of the
\* same key that computes while the upstream data is available succeeds. It
\* fails on an Eth service, where GetStakingTxs returns the unsupported
\* error whatever the upstream data is.
C7_RetrySucceedsWhenAvailable ==
    [][\A p \in Procs :
          (/\ last.kind = procs[p].kind
           /\ last.n = procs[p].n
           /\ last.err # Nil
           /\ LookupCompute(p)
           /\ Available(procs[p].kind, up))
          => last'.err = Nil]_vars

\* C7: failures are never cached: when the computation behind a miss fails
\* (signer resolution, staking-transaction rendering) the error is returned
\* and the caches are left as they were; a lookup of a key that is not
\* cached invokes the computation; and that computation succeeds and stores
\* its value whenever the upstream data is available at that time, for
\* staking transactions on a V1 or V2 service.
C7_FailuresNeverCached ==
    [][/\ \A p \in Procs :
            (LookupCompute(p) /\ ~Computable(procs[p].kind, version, up))
            => /\ last'.err # Nil
               /\ last'.value = NilValue
               /\ cache' = cache
       /\ \A p \in Procs, kind \in Kinds, n \in Blocks :
            (LookupGet(p, kind, n) /\ ~LruContains(cache[kind], n))
            => /\ procs'[p] = [pc |-> "miss", kind |-> kind, n |-> n]
               /\ cache' = cache
       /\ \A p \in Procs :
            (LookupCompute(p) /\ Computable(procs[p].kind, version, up))
            => /\ last'.err = Nil
               /\ last'.computed
               /\ last'.value = DerivedValue(procs[p].kind, version, procs[p].n)
               /\ LruContains(cache'[procs[p].kind], procs[p].n)]_vars

\* The staking rendering of block last.n has failed and left the cache, which
\* holds another block, as it was; the upstream data has become available
\* and a later lookup of the same block is in its miss.
C7_Witness ==
    /\ version \in {V1, V2}
    /\ last.kind = "stakingTxs"
    /\ last.err = ErrStakingTxs
    /\ last.value = NilValue
    /\ Len(cache.stakingTxs) = 1
    /\ ~LruContains(cache.stakingTxs, last.n)
    /\ up
    /\ \E q \in Procs : procs[q] = [pc |-> "miss", kind |-> "stakingTxs", n |-> last.n]

\* C16: on an Eth service every GetStakingTxs fails with the unsupported
\* error, after any sequence of earlier requests, and the staking-transaction
\* cache stays empty, so no request is ever served from it.
C16_EthStakingAlwaysUnsupported ==
    version = Eth
    => /\ cache.stakingTxs = <<>>
       /\ last.kind = "stakingTxs"
          => /\ last.err = ErrStakingUnsupported
             /\ last.value = NilValue
             /\ last.computed

\* On an Eth service, with the upstream data readable, a request for the
\* staking transactions of a block has failed and another request for the
\* same block is past its cache miss.
C16_Witness ==
    /\ version = Eth
    /\ up
    /\ last.kind = "stakingTxs"
    /\ last.err = ErrStakingUnsupported
    /\ \E q \in Procs : procs[q] = [pc |-> "miss", kind |-> "stakingTxs", n |-> last.n]

\* C8: for each cache, a lookup of a key that an earlier lookup has stored
\* and that has not been evicted since returns the stored value without
\* invoking the underlying computation.
C8_HitReturnsStored ==
    [][\A p \in Procs, kind \in Kinds, n \in Blocks :
          (LookupGet(p, kind, n) /\ LruContains(cache[kind], n))
          => /\ procs'[p].pc = "idle"
             /\ last' = [kind |-> kind, n |-> n,
                         value |-> cache[kind][LruIndex(cache[kind], n)].value,
                         err |-> Nil, computed |-> FALSE]
             /\ LruContains(cache'[kind], n)]_vars

C8_Witness ==
    /\ last.kind = "stakingTxs"
    /\ last.err = Nil
    /\ ~last.computed
    /\ Len(cache.stakingTxs) = 2
    /\ cache.stakingTxs[1].key = last.n
    /\ cache.stakingTxs[1].value = last.value

\* C9: for every block number n and each cache, every successful lookup of
\* n returns the value derived from block n, so that any two successful
\* lookups of n return identical values, whatever happens between them
\* (other lookups, eviction and recomputation, concurrent requests).
C9_LookupsAgree ==
    (last.kind # "none" /\ last.err = Nil)
    => last.value = DerivedValue(last.kind, version, last.n)

\* Block n was evicted and a lookup recomputed it while another request was
\* in its own miss.
C9_Witness ==
    /\ last.kind = "leader"
    /\ last.err = Nil
    /\ last.computed
    /\ Len(cache.leader) = 2
    /\ ~LruContains(cache.leader, 0)
    /\ last.n = 1
    /\ \E q \in Procs : procs[q].pc = "miss" /\ procs[q].n = 1

-----------------------------------------------------------------------------
(* The signer queries: GetBlockSigners, GetBlockSignerKeys, IsBlockSigner   *)
(* and GetSignedBlocks, each served in one step against the signers cache  *)

\* The validator counters NumBlocksSigned go up to MaxCounter.
MaxCounter == 2
\* shard.Schedule.InstanceForEpoch(...).BlocksPerEpoch() is at most this.
MaxBlocksPerEpoch == 2

ErrPendingSignerKeys  == "cannot get signer keys for pending blocks"
ErrUnknownBlock       == "unknown block"
ErrPendingSigningData == "no signing data for pending block number"
ErrBech32ToAddress    == "cannot decode address"
ErrReadValidator      == "cannot read validator information"
ErrReadSnapshot       == "cannot read validator snapshot"
ErrNegativeSigned     == "negative signed in epoch"

\* The addresses a request may name: those of the roster, one of no
\* validator, and one that is not an address.
OneAddresses == {<<"one1", "a1">>, <<"one1", "a2">>, <<"one1", "a3">>, <<"xyz", "a1">>}

\* internal_common.Bech32ToAddress
Bech32ToAddress(address) ==
    IF address[1] = "one1" THEN [addr |-> address[2], err |-> Nil]
    ELSE [addr |-> "", err |-> ErrBech32ToAddress]

\* What GetSignedBlocks reads from the chain besides the head: whether the
\* current epoch is a staking epoch, the epoch's block count, and the two
\* validator records with their counters.
ChainEnvs ==
    [staking : {FALSE}, blocksPerEpoch : 1 .. MaxBlocksPerEpoch,
     curRead : {"ok"}, prevRead : {"ok"}, cur : {0}, prev : {0}]
    \cup
    [staking : {TRUE}, blocksPerEpoch : {1},
     curRead : {"ok", "err"}, prevRead : {"ok", "err"},
     cur : 0 .. MaxCounter, prev : 0 .. MaxCounter]

\* BlockChain.ReadValidatorInformation
ReadValidatorInformation(env) ==
    IF env.curRead = "ok" THEN [NumBlocksSigned |-> env.cur, err |-> Nil]
    ELSE [NumBlocksSigned |-> 0, err |-> ErrReadValidator]

\* BlockChain.ReadValidatorSnapshot
ReadValidatorSnapshot(env) ==
    IF env.prevRead = "ok" THEN [NumBlocksSigned |-> env.prev, err |-> Nil]
    ELSE [NumBlocksSigned |-> 0, err |-> ErrReadSnapshot]

\* The responses, each with its Go type: a []string, a bool,
\* hexutil.Uint64(n) and the plain uint64.
Strings(l) == <<"[]string", l>>
Bool(b)    == <<"bool", b>>
HexUint64(n)   == <<"hexutil.Uint64", n>>
PlainUint64(n) == <<"uint64", n>>

\* What a query did on the way: blocks fetched from the chain, cache.Get
\* calls on the signers cache, calls of getSignerData.
NoLookups == [fetched |-> 0, gets |-> 0, resolved |-> 0]

\* A query's outcome: the response (resNil when nil), the error, the signers
\* cache after it and what it did on the way.
Outcome(resNil, res, err, c, o) ==
    [resNil |-> resNil, res |-> res, err |-> err, cache |-> c, obs |-> o]

\* bcServiceHelper.getSignerData: [cache, value, err, obs]
helperGetSignerData(c, bn, upOK, o) ==
    LET g == LruGet(c, BlockKey(bn))
        m == getSignerDataMiss(g.cache, bn, upOK)
    IN  IF CacheHit(g)
        THEN [cache |-> g.cache, value |-> g.value, err |-> Nil,
              obs |-> [o EXCEPT !.gets = @ + 1]]
        ELSE [cache |-> m.cache, value |-> m.value, err |-> m.err,
              obs |-> [o EXCEPT !.gets = @ + 1, !.resolved = @ + 1]]

\* bcServiceHelper.GetSigners
GetSigners(c, bn, upOK, o) ==
    LET r == helperGetSignerData(c, bn, upOK, o)
    IN  IF r.err # Nil THEN Outcome(TRUE, <<>>, r.err, r.cache, r.obs)
        ELSE Outcome(FALSE, Strings(r.value.signers), Nil, r.cache, r.obs)

\* bcServiceHelper.GetBLSSigners
GetBLSSigners(c, bn, upOK, o) ==
    LET r == helperGetSignerData(c, bn, upOK, o)
    IN  IF r.err # Nil THEN Outcome(TRUE, <<>>, r.err, r.cache, r.obs)
        ELSE Outcome(FALSE, Strings(r.value.blsSigners), Nil, r.cache, r.obs)

\* bcServiceHelper.IsSigner
IsSigner(c, oneAddr, bn, upOK, o) ==
    LET r == helperGetSignerData(c, bn, upOK, o)
    IN  IF r.err # Nil THEN Outcome(FALSE, Bool(FALSE), r.err, r.cache, r.obs)
        ELSE Outcome(FALSE,
                     Bool(\E k \in 1 .. Len(r.value.signers) : r.value.signers[k] = oneAddr),
                     Nil, r.cache, r.obs)

isBlockGreaterThanLatest(hd, blockNum) ==
    IF blockNum = PendingBlockNumber THEN TRUE
    ELSE IF blockNum = LatestBlockNumber THEN FALSE
    ELSE Uint(blockNum) > hd

C13_ZeroOrNotBelowHead_Mut(blockNum, hd) == blockNum = 0 \/ blockNum > hd
\* blockNum.Int64() == 0 || blockNum.Int64() >= s.hmy.CurrentBlock().Number().Int64()
ZeroOrNotBelowHead(blockNum, hd) == blockNum = 0 \/ blockNum >= hd

GetBlockSignersImpl(hd, c, upOK, blockNumber) ==
    LET blockNum == blockNumber
        bn  == IF blockNum = LatestBlockNumber THEN hd ELSE Uint(blockNum)
        blk == ChainGetBlockByNumber(bn, hd)
        o   == [NoLookups EXCEPT !.fetched = 1]
    IN  IF blockNum = PendingBlockNumber
        THEN Outcome(TRUE, <<>>, ErrPendingSignerKeys, c, NoLookups)
        ELSE IF ZeroOrNotBelowHead(blockNum, hd)
        THEN Outcome(FALSE, Strings(<<>>), Nil, c, NoLookups)
        ELSE IF isBlockGreaterThanLatest(hd, blockNum)
        THEN Outcome(TRUE, <<>>, ErrRequestedBlockTooHigh, c, NoLookups)
        ELSE IF blk = NoBlock
        THEN Outcome(TRUE, <<>>, ErrUnknownBlock, c, o)
        ELSE GetSigners(c, blk, upOK, o)

GetBlockSignerKeysImpl(hd, c, upOK, blockNumber) ==
    LET blockNum == blockNumber
        bn == IF blockNum = LatestBlockNumber THEN hd ELSE Uint(blockNum)
    IN  IF blockNum = PendingBlockNumber
        THEN Outcome(TRUE, <<>>, ErrPendingSignerKeys, c, NoLookups)
        ELSE IF ZeroOrNotBelowHead(blockNum, hd)
        THEN Outcome(FALSE, Strings(<<>>), Nil, c, NoLookups)
        ELSE IF isBlockGreaterThanLatest(hd, blockNum)
        THEN Outcome(TRUE, <<>>, ErrRequestedBlockTooHigh, c, NoLookups)
        ELSE GetBLSSigners(c, bn, upOK, NoLookups)

C15_IsZero_Mut(blockNum) == FALSE
\* blockNum.Int64() == 0
IsZero(blockNum) == blockNum = 0

\* IsBlockSigner, o being what the caller has done so far.
IsBlockSignerImpl(hd, c, upOK, blockNumber, address, o) ==
    LET blockNum == blockNumber
        bn == IF blockNum = LatestBlockNumber THEN hd ELSE Uint(blockNum)
    IN  IF IsZero(blockNum)
        THEN Outcome(FALSE, Bool(FALSE), Nil, c, o)
        ELSE IF isBlockGreaterThanLatest(hd, blockNum)
        THEN Outcome(FALSE, Bool(FALSE), ErrRequestedBlockTooHigh, c, o)
        ELSE IF blockNum = PendingBlockNumber
        THEN Outcome(FALSE, Bool(FALSE), ErrPendingSigningData, c, o)
        ELSE IsSigner(c, address, bn, upOK, o)

\* for i := lastBlock; i <= blockHeight; i++ { ... totalSigned++ ... } on the
\* totalSigned the block before staking declares: [totalSigned, cache, obs]
RECURSIVE SignedLoop(_, _, _, _, _, _, _)
SignedLoop(hd, c, upOK, address, i, blockHeight, acc) ==
    IF i > blockHeight THEN acc
    ELSE LET r == IsBlockSignerImpl(hd, acc.cache, upOK, WrapInt(i), address, acc.obs)
         IN  SignedLoop(hd, c, upOK, address, i + 1, blockHeight,
                        [totalSigned |-> IF r.err = Nil /\ r.res = Bool(TRUE)
                                         THEN acc.totalSigned + 1
                                         ELSE acc.totalSigned,
                         cache |-> r.cache, obs |-> r.obs])

\* switch s.version { case V1, Eth: hexutil.Uint64(totalSigned) ... }
FormatSigned(v, totalSigned, c, o) ==
    CASE v \in {V1, Eth} -> Outcome(FALSE, HexUint64(totalSigned), Nil, c, o)
      [] v = V2          -> Outcome(FALSE, PlainUint64(totalSigned), Nil, c, o)
      [] OTHER           -> Outcome(TRUE, <<>>, ErrUnknownRPCVersion, c, o)

C19_Negative_Mut(signedInEpoch) == FALSE
\* signedInEpoch.Cmp(common.Big0) < 0
Negative(signedInEpoch) == signedInEpoch < 0

GetSignedBlocksImpl(v, hd, c, upOK, address, env) ==
    LET \* var totalSigned uint64, of the function
        totalSigned == 0
        blockHeight == hd
        lastBlock   == IF blockHeight >= env.blocksPerEpoch
                       THEN blockHeight - env.blocksPerEpoch + 1
                       ELSE 0
        \* totalSigned := uint64(0) declares another variable, of the block:
        \* the loop counts on it and the function's variable stays as it is.
        inner == SignedLoop(hd, c, upOK, address, lastBlock, blockHeight,
                            [totalSigned |-> 0, cache |-> c, obs |-> NoLookups])
        ethAddr == Bech32ToAddress(address)
        curVal  == ReadValidatorInformation(env)
        prevVal == ReadValidatorSnapshot(env)
        signedInEpoch == curVal.NumBlocksSigned - prevVal.NumBlocksSigned
    IN  IF ~env.staking
        THEN FormatSigned(v, totalSigned, inner.cache, inner.obs)
        ELSE IF ethAddr.err # Nil THEN Outcome(TRUE, <<>>, ethAddr.err, c, NoLookups)
        ELSE IF curVal.err # Nil THEN Outcome(TRUE, <<>>, curVal.err, c, NoLookups)
        ELSE IF prevVal.err # Nil THEN Outcome(TRUE, <<>>, prevVal.err, c, NoLookups)
        ELSE IF Negative(signedInEpoch)
        THEN Outcome(TRUE, <<>>, ErrNegativeSigned, c, NoLookups)
        ELSE FormatSigned(v, Uint(signedInEpoch), c, NoLookups)

NoEnv == [staking |-> FALSE, blocksPerEpoch |-> 1, curRead |-> "ok", prevRead |-> "ok",
          cur |-> 0, prev |-> 0]

\* The query served last: its arguments and what it read from the chain.
Query(op, blockNumber, address, env) ==
    [op |-> op, num |-> blockNumber, address |-> address, head |-> head, up |-> up,
     env |-> env, cacheBefore |-> cache.signers]

InitQuery ==
    /\ version \in Versions
    /\ ServiceIdle
    /\ cache = [leader |-> <<>>, signers |-> <<>>, stakingTxs |-> <<>>]
    /\ procs = <<>>
    /\ up \in BOOLEAN
    /\ last = [kind |-> "none", n |-> 0, value |-> [t |-> "nil"], err |-> Nil, computed |-> FALSE]
    /\ SignerIdle

\* A query returns r.
Served(r) ==
    /\ ret' = [resNil |-> r.resNil, res |-> r.res, err |-> r.err]
    /\ obs' = r.obs
    /\ cache' = [cache EXCEPT !.signers = r.cache]
    /\ UNCHANGED <<version, limiter, head, gb, ctxDone>>
    /\ UNCHANGED <<procs, up, last>>
    /\ UNCHANGED signerVars

GetBlockSigners(blockNumber) ==
    /\ Ready
    /\ call' = Query("GetBlockSigners", blockNumber, <<>>, NoEnv)
    /\ Served(GetBlockSignersImpl(head, cache.signers, up, blockNumber))

GetBlockSignerKeys(blockNumber) ==
    /\ Ready
    /\ call' = Query("GetBlockSignerKeys", blockNumber, <<>>, NoEnv)
    /\ Served(GetBlockSignerKeysImpl(head, cache.signers, up, blockNumber))

IsBlockSigner(blockNumber, address) ==
    /\ Ready
    /\ call' = Query("IsBlockSigner", blockNumber, address, NoEnv)
    /\ Served(IsBlockSignerImpl(head, cache.signers, up, blockNumber, address, NoLookups))

GetSignedBlocks(address, env) ==
    /\ Ready
    /\ call' = Query("GetSignedBlocks", 0, address, env)
    /\ Served(GetSignedBlocksImpl(version, head, cache.signers, up, address, env))

\* The queries are served in one step each, so the chain is let change
\* between two of them.
NextQuery ==
    \/ Ready /\ AdvanceHead
    \/ Ready /\ UpstreamChange
    \/ Respond
    \/ \E blockNumber \in NumberInputs : GetBlockSigners(blockNumber)
    \/ \E blockNumber \in NumberInputs : GetBlockSignerKeys(blockNumber)
    \/ \E blockNumber \in NumberInputs, address \in OneAddresses :
           IsBlockSigner(blockNumber, address)
    \/ \E address \in OneAddresses, env \in ChainEnvs : GetSignedBlocks(address, env)

SpecQuery == InitQuery /\ [][NextQuery]_vars

-----------------------------------------------------------------------------
(* Properties of the signer queries, checked under SpecQuery *)

\* The query touched the signers cache neither to read nor to write.
CacheUntouched ==
    /\ obs.gets = 0
    /\ obs.resolved = 0
    /\ cache.signers = call.cacheBefore

\* C13: GetBlockSigners and GetBlockSignerKeys, for a numeric block number
\* that is 0 or at or beyond the current head, return an empty list and no
\* error, and neither consult nor modify the signers cache.
C13_NoSignersAtOrBeyondHead ==
    (/\ call.op \in {"GetBlockSigners", "GetBlockSignerKeys"}
     /\ call.num >= 0
     /\ call.num = 0 \/ call.num >= call.head)
    => /\ ret.err = Nil
       /\ ~ret.resNil
       /\ ret.res = Strings(<<>>)
       /\ CacheUntouched

\* The signer keys of the head block are asked for while the cache holds
\* the signer data of that very block.
C13_Witness ==
    /\ call.op = "GetBlockSignerKeys"
    /\ call.head >= 1
    /\ call.num = call.head
    /\ LruContains(call.cacheBefore, call.num)
    /\ ret.err = Nil
    /\ ret.res = Strings(<<>>)

\* C14 as stated: IsBlockSigner, for a numeric block number at or beyond
\* the current head, returns false and no error and does not invoke the
\* signer resolver. The code returns ErrRequestedBlockTooHigh above the
\* head and resolves the signers of the head block itself.
C14_IsBlockSignerAtOrBeyondHead ==
    (/\ call.op = "IsBlockSigner"
     /\ call.num >= 0
     /\ call.num >= call.head)
    => /\ ret.err = Nil
       /\ ret.res = Bool(FALSE)
       /\ obs.resolved = 0

\* C15: IsBlockSigner(0, address) returns false and no error for every
\* address, variant and chain state, without touching the signers cache.
C15_IsBlockSignerOfZero ==
    (call.op = "IsBlockSigner" /\ call.num = 0)
    => /\ ret.err = Nil
       /\ ~ret.resNil
       /\ ret.res = Bool(FALSE)
       /\ CacheUntouched

\* Block 0 is asked about for an address that its cached signer data lists.
C15_Witness ==
    /\ call.op = "IsBlockSigner"
    /\ call.num = 0
    /\ call.head >= 1
    /\ LruContains(call.cacheBefore, 0)
    /\ \E k \in 1 .. Len(EnabledAddresses(ChainSlots(0), ChainMask(0))) :
           EnabledAddresses(ChainSlots(0), ChainMask(0))[k] = call.address
    /\ ret.err = Nil
    /\ ret.res = Bool(FALSE)

\* The number of blocks i of the window [max(0, h - B + 1), h] for which
\* IsBlockSigner(i, address) is true, the chain's signer data being readable.
SignedInWindow(address, h, B) ==
    LET lastBlock == IF h >= B THEN h - B + 1 ELSE 0
        signers(i) == EnabledAddresses(ChainSlots(i), ChainMask(i))
    IN  Cardinality({i \in lastBlock .. h :
                        /\ i # 0
                        /\ \E k \in 1 .. Len(signers(i)) : signers(i)[k] = address})

\* The count n as the service of version v encodes it.
Encoded(v, n) == IF v = V2 THEN PlainUint64(n) ELSE HexUint64(n)

\* C18 as stated: before the staking epoch GetSignedBlocks returns the
\* number of blocks of the current epoch window that the address signed,
\* encoded per version. The code counts on a variable that shadows the one
\* it returns, so it returns 0.
C18_SignedBlocksBeforeStaking ==
    (/\ call.op = "GetSignedBlocks"
     /\ ~call.env.staking
     /\ call.up)
    => /\ ret.err = Nil
       /\ ret.res = Encoded(version, SignedInWindow(call.address, call.head,
                                                    call.env.blocksPerEpoch))

\* Whether GetSignedBlocks from the staking epoch on has no count to return.
NoCount(address, env) ==
    \/ Bech32ToAddress(address).err # Nil
    \/ env.curRead # "ok"
    \/ env.prevRead # "ok"
    \/ env.cur < env.prev

\* C19: from the staking epoch on GetSignedBlocks returns the validator's
\* current counter minus the counter of its previous-epoch snapshot, and an
\* error and no count when the address is invalid, when either record
\* cannot be read, or when the difference is negative.
C19_SignedBlocksFromStaking ==
    (call.op = "GetSignedBlocks" /\ call.env.staking)
    => IF NoCount(call.address, call.env)
       THEN /\ ret.err # Nil
            /\ ret.resNil
            /\ ret.res = <<>>
       ELSE /\ ret.err = Nil
            /\ ~ret.resNil
            /\ ret.res = Encoded(version, call.env.cur - call.env.prev)

\* Both records are read and the counter has grown by one since the
\* snapshot, which is not zero.
C19_Witness ==
    /\ call.op = "GetSignedBlocks"
    /\ call.env.staking
    /\ ~NoCount(call.address, call.env)
    /\ call.env.prev = 1
    /\ call.env.cur = 2
    /\ version = V2
    /\ ret.err = Nil
    /\ ret.res = PlainUint64(1)

-----------------------------------------------------------------------------
(* The Pending sentinel in GetBlocks, checked under Spec *)

\* C21 as stated, for GetBlocks: a GetBlocks call that was given Pending as
\* its start or as its end has, once it has returned, returned an error.
\* With Pending (-2) as end and a start that is not below it the loop runs
\* no iteration and the call returns the empty list and no error.
C21_PendingIsAlwaysAnError ==
    (/\ call.op = "GetBlocks"
     /\ gb.pc = "done"
     /\ (call.num = PendingBlockNumber \/ call.endNum = PendingBlockNumber))
    => ret.err # Nil

-----------------------------------------------------------------------------
(* Writes of the caches under concurrent requests, checked under SpecCache *)

\* C22 as stated: once a key is present in a cache, no request writes that
\* key again while it is present. A step in which request p leaves its miss
\* with a value is the step of its cache.Add; the key it adds must not be in
\* the cache before that step. Two requests that both missed the same key
\* both add it, the second one over the entry of the first.
C22_PresentKeyNeverWritten ==
    [][\A p \in Procs :
         (/\ procs[p].pc = "miss"
          /\ procs'[p].pc = "idle"
          /\ last'.computed
          /\ last'.err = Nil)
         => ~LruContains(cache[procs[p].kind], BlockKey(procs[p].n))]_vars

-----------------------------------------------------------------------------
(* The three caches side by side: lookups served one after another, each   *)
(* against the cache of its kind                                            *)

\* A whole lookup of GetLeader, GetStakingTxs or helper.getSignerData, for
\* what it does to the caches: the cache.Get, which on a hit refreshes the
\* entry, and on a miss the computation with the cache.Add of its result.
Lookup(kind, n) ==
    /\ LET g == LruGet(cache[kind], BlockKey(n))
           r == Miss(kind, g.cache, version, n, up)
       IN  IF CacheHit(g)
           THEN cache' = [cache EXCEPT ![kind] = g.cache]
           ELSE cache' = [cache EXCEPT ![kind] = r.cache]
    /\ UNCHANGED <<procs, up, last>>
    /\ UNCHANGED <<serviceVars, signerVars>>

InitLru ==
    /\ InitCache
    /\ up = TRUE

NextLru == \E kind \in Kinds, n \in Blocks : Lookup(kind, n)

SpecLru == InitLru /\ [][NextLru]_vars

\* The keys a cache holds.
Keys(c) == {c[i].key : i \in 1 .. Len(c)}

\* The least recently used key of a cache that is not empty.
Oldest(c) == c[Len(c)].key

\* C23: each of the three caches holds at most blockCacheSize entries
\* (2048 in the source); a lookup that inserts a key into a cache puts it in
\* front of the entries that were there, in their order, dropping from a
\* full cache exactly its least recently used key; a hit moves its entry to
\* the front and keeps the others in their order; and a lookup leaves the
\* other two caches as they were.
C23_BoundedLruEviction ==
    [][\A kind \in Kinds :
         LET c == cache[kind]
             d == cache'[kind]
         IN  /\ Len(c) <= blockCacheSize
             /\ Len(d) <= blockCacheSize
             /\ Cardinality(Keys(d)) = Len(d)
             /\ d # c => \A other \in Kinds \ {kind} : cache'[other] = cache[other]
             /\ \A k \in Blocks :
                   (k \notin Keys(c) /\ k \in Keys(d))
                   => /\ d[1].key = k
                      /\ IF Len(c) = blockCacheSize
                         THEN /\ Keys(d) = (Keys(c) \ {Oldest(c)}) \cup {k}
                              /\ Tail(d) = SubSeq(c, 1, Len(c) - 1)
                         ELSE Tail(d) = c
             /\ (d # c /\ Keys(d) = Keys(c))
                => \E i \in 1 .. Len(c) : d = <<c[i]>> \o LruWithout(c, i)]_vars

\* Every cache is full; in the leader cache the last block is in front, the
\* most recently used, and block 0 is no longer held.
C23_Witness ==
    /\ \A kind \in Kinds : Len(cache[kind]) = blockCacheSize
    /\ cache.leader[1].key = BlockKey(MaxBlock)
    /\ ~LruContains(cache.leader, BlockKey(0))
    /\ LruContains(cache.signers, BlockKey(0))

-----------------------------------------------------------------------------
(* The admission gate in GetBlocks, checked under Spec *)

\* C24 as stated, for GetBlocks: a GetBlocks call invokes wait once for the
\* whole range. GetBlocks itself does not call wait; each iteration calls
\* GetBlockByNumber, which calls wait first, so the calls of wait made on
\* behalf of a GetBlocks call are the obs.calls calls of GetBlockByNumber.
C24_GetBlocksWaitsOnce ==
    call.op = "GetBlocks" => obs.calls <= 1

-----------------------------------------------------------------------------
(* The admission gate of a service that has a limiter: GetBlockByNumber    *)
(* and GetBlockByHash, which call wait before anything else                *)

\* rate.NewLimiter(rate.Limit(limit), 1): a bucket of one token, full.
NewLimiter(limit) == [enabled |-> TRUE, limit |-> limit, tokens |-> 1]

\* The rates of the limiter: none, and one token per interval.
Limits == {0, 1}

InitGate ==
    /\ version \in Versions
    /\ \E limit \in Limits : limiter = NewLimiter(limit)
    /\ head \in 0 .. 1
    /\ call = NoCall
    /\ gb = IdleFrame
    /\ ctxDone = FALSE
    /\ ret = NoRet
    /\ obs = NoObs
    /\ CacheIdle
    /\ SignerIdle

\* Time passes and the bucket gets its token back.
Refill ==
    /\ limiter.enabled
    /\ limiter.limit > 0
    /\ limiter.tokens < 1
    /\ limiter' = [limiter EXCEPT !.tokens = 1]
    /\ UNCHANGED <<version, head, call, gb, ctxDone, ret, obs>>
    /\ UNCHANGED <<cacheVars, signerVars>>

NextGate ==
    \/ Ready /\ AdvanceHead
    \/ Refill
    \/ Respond
    \/ \E n \in NumberInputs, o \in OptsInputs, fac \in FactoryOutcomes :
           GetBlockByNumber(n, o, fac)
    \/ \E h \in Hashes, o \in OptsInputs, how \in EngineReports, fac \in FactoryOutcomes :
           GetBlockByHash(h, o, how, fac)

SpecGate == InitGate /\ [][NextGate]_vars

-----------------------------------------------------------------------------
(* The result of GetBlocks, checked under Spec *)

\* C26 as stated: a GetBlocks call that has returned without error returns
\* at most rpcGetBlocksLimit + 1 rendered blocks, in strictly ascending
\* order of their numbers (so none twice), each number within the range
\* blockStart..blockEnd of the call and not above the chain head. With
\* Latest (-1) as start the first iteration asks GetBlockByNumber for -1,
\* which is the head block, and the following ones for 0, 1, ...
C26_ResultAscendingInRange ==
    (call.op = "GetBlocks" /\ gb.pc = "done" /\ ret.err = Nil)
    => /\ Len(ret.res) <= rpcGetBlocksLimit + 1
       /\ \A k \in 1 .. Len(ret.res) :
             /\ gb.blockStart <= ret.res[k].number
             /\ ret.res[k].number <= gb.blockEnd
             /\ ret.res[k].number <= head
       /\ \A j, k \in 1 .. Len(ret.res) :
             j < k => ret.res[j].number < ret.res[k].number

-----------------------------------------------------------------------------
(* Errors inside GetSignedBlocks, checked under SpecQuery *)

\* The first block of the window GetSignedBlocks scans before staking.
WindowStart(h, B) == IF h >= B THEN h - B + 1 ELSE 0

\* IsBlockSigner fails for a block of the window of the query served. The
\* signers cache holds the same keys during the whole scan when a block
\* fails, since the upstream data is then unreadable and nothing is added.
WindowFailure ==
    \E i \in WindowStart(call.head, call.env.blocksPerEpoch) .. call.head :
        IsBlockSignerImpl(call.head, call.cacheBefore, call.up, i, call.address,
                          NoLookups).err # Nil

\* C27 as stated, for the path before staking: when IsBlockSigner fails for
\* a block of the scanned window, GetSignedBlocks returns an error. The loop
\* counts a block only when err == nil and signed, and goes on to the next
\* block whatever err is.
C27_WindowErrorsSurfaced ==
    (/\ call.op = "GetSignedBlocks"
     /\ ~call.env.staking
     /\ WindowFailure)
    => ret.err # Nil

-----------------------------------------------------------------------------
(* The Latest sentinel in the signer queries, checked under SpecQuery *)

\* The query served returned what r is, with r's effect on the signers cache.
SameAs(r) ==
    /\ ret = [resNil |-> r.resNil, res |-> r.res, err |-> r.err]
    /\ cache.signers = r.cache

\* C28 as stated: a signer query for Latest, served with the head at h,
\* returns what the same query for the number h returns in the same state,
\* and leaves the signers cache as that query does. The handlers compare the
\* number before Latest is resolved: -1 is below the head and its signers
\* are looked up, while h itself is at the head and gets the empty answer.
C28_LatestSameAsHead ==
    call.num = LatestBlockNumber
    => /\ call.op = "GetBlockSigners"
          => SameAs(GetBlockSignersImpl(call.head, call.cacheBefore, call.up, call.head))
       /\ call.op = "GetBlockSignerKeys"
          => SameAs(GetBlockSignerKeysImpl(call.head, call.cacheBefore, call.up, call.head))
       /\ call.op = "IsBlockSigner"
          => SameAs(IsBlockSignerImpl(call.head, call.cacheBefore, call.up, call.head,
                                      call.address, NoLookups))
====
